---------------------------- MODULE Spec2Model ----------------------------
(***************************************************************************)
(* A model of the docs_chatbot repository:                                 *)
(*   - the answer pipeline of the web servers (main.py, main_local.py)     *)
(*     and of the command-line client (ask.py), with the session store;    *)
(*   - the ingestion scripts (ingest_local.py, ingest.py);                 *)
(*   - the retrievers the programs configure (plain top-k and MMR).        *)
(* The three parts are separate programs; each has its own specification   *)
(* (Spec, SpecIngest, SpecRetrieve) over its own variables.                *)
(***************************************************************************)
EXTENDS Integers, Sequences, FiniteSets, TLC

VARIABLES
    \* ---- answer pipeline (main.py, main_local.py, ask.py)
    variant,        \* "history" (main.py, main_local.py) or "plain" (ask.py)
    rag_chain,      \* app_state["rag_chain"]: "unset", "none" or "chain"
    db_dir,         \* os.path.exists(DB_PATH) at startup: "unchecked", "present", "absent"
    store,          \* store: session id -> history object (NoObj when absent)
    messages,       \* heap of ChatMessageHistory objects: object -> message list
    nextObj,        \* next history object to allocate
    pc,             \* request -> state of its pipeline
    session_id,     \* request -> session id of the request (NoSession before it arrives)
    hist,           \* request -> history object handed to the chain for this run
    chat_history,   \* request -> the messages loaded into the prompt at chain start
    out,            \* request -> fragments written to the response stream so far
    invoked,        \* request -> number of times the chain was invoked for it
    path,           \* log: request -> the states its pipeline has entered, in order
    completed,      \* log: requests in the order their pipelines completed
    doneAtAsk,      \* log: request -> the requests that were DONE when it arrived
    \* ---- ingestion (ingest_local.py, ingest.py)
    ipc,            \* position of the ingestion script
    iscript,        \* "batched" (ingest_local.py) or "simple" (ingest.py)
    total_files,    \* len(all_filepaths) / number of files the loader matches
    fi,             \* file loop variable i
    n_docs,         \* len(batch_docs) / len(documents)
    total_chunks,   \* len(chunks)
    cj,             \* chunk loop variable j
    file_batches,   \* log: the file batches taken, in order, as <<first, last>>
    attempts,       \* log: the chunk batches submitted, in order
    index,          \* the vector store: chunk batches it holds
    reported,       \* the no-documents message was printed
    \* ---- retrieval (Chroma retriever as configured by the programs)
    rpc,            \* "ready" or "done"
    search_type,    \* "similarity" (ask.py) or "mmr" (main.py, main_local.py)
    docs,           \* the index content: a sequence of embeddings
    query,          \* the query embedding
    results         \* the retriever's answer: positions in docs, in order

pipeVars == <<variant, rag_chain, db_dir, store, messages, nextObj, pc, session_id, hist,
              chat_history, out, invoked, path, completed, doneAtAsk>>
ingestVars == <<ipc, iscript, total_files, fi, n_docs, total_chunks, cj,
                file_batches, attempts, index, reported>>
retrVars == <<rpc, search_type, docs, query, results>>
vars == <<pipeVars, ingestVars, retrVars>>

(***************************************************************************)
(* Bounds of the model.                                                    *)
(***************************************************************************)
MaxRequests == 2
MaxSessions == 2
MaxFragments == 2

Requests == 1..MaxRequests
Sessions == 1..MaxSessions
NoSession == 0
NoObj == 0
Objects == 1..MaxRequests

(***************************************************************************)
(* Sequence helpers.                                                       *)
(***************************************************************************)
IsPrefix(s, t) == Len(s) <= Len(t) /\ SubSeq(t, 1, Len(s)) = s

Last(s) == s[Len(s)]

(***************************************************************************)
(* Response fragments and history messages.                                *)
(***************************************************************************)
Tok(n) == <<"tok", n>>
ErrException == <<"err", "An error occurred">>
ErrNoDatabase == <<"err", "Database not found">>

HumanMessage(r) == [role |-> "human", req |-> r, content |-> <<>>]
AIMessage(r, answer) == [role |-> "ai", req |-> r, content |-> answer]

\* The turn RunnableWithMessageHistory saves when the run of request r ends:
\* the input message followed by the aggregated output.
TurnOf(r, answer) == <<HumanMessage(r), AIMessage(r, answer)>>

(***************************************************************************)
(* get_session_history: the store after a lookup of session s, and whether *)
(* the lookup created a history.                                           *)
(***************************************************************************)
StoreAlwaysNew(s) == [store EXCEPT ![s] = nextObj]

StoreAfterGet(s) ==
    IF store[s] = NoObj THEN [store EXCEPT ![s] = nextObj] ELSE store

(***************************************************************************)
(* The messages the chain is given as chat_history: the content of the     *)
(* session's history when the run starts.                                  *)
(***************************************************************************)
LoadNothing(h) == <<>>

LoadHistory(h) == messages[h]

(***************************************************************************)
(* ChatMessageHistory.add_messages on object h: appends to the shared      *)
(* object, not to the copy the run loaded.                                 *)
(***************************************************************************)
AddToLoadedCopy(h, r, new) == [messages EXCEPT ![h] = chat_history[r] \o new]

AddMessages(h, r, new) == [messages EXCEPT ![h] = @ \o new]

(***************************************************************************)
(* What the heap holds once request r has entered the chain: a history     *)
(* created by the lookup is empty, nothing is saved before the run ends.   *)
(***************************************************************************)
MessagesAtStartEager(r, h) == [messages EXCEPT ![h] = @ \o <<HumanMessage(r)>>]

MessagesAtStart(r, h) == messages

(***************************************************************************)
(* The except clause of stream_answer / ask.py main: the stream after an   *)
(* exception, and the state the request is left in.                        *)
(***************************************************************************)
StreamAfterExceptionSilent(o) == o

StreamAfterException(o) == Append(o, ErrException)

StateAfterException == "FAILED"

(***************************************************************************)
(* Initial state of the answer pipeline: module load of main.py, before    *)
(* the startup event; or ask.py before main().                             *)
(***************************************************************************)
InitPipe ==
    /\ variant \in {"history", "plain"}
    /\ rag_chain = "unset"
    /\ db_dir = "unchecked"
    /\ store = [s \in Sessions |-> NoObj]
    /\ messages = [h \in Objects |-> <<>>]
    /\ nextObj = 1
    /\ pc = [r \in Requests |-> "NEW"]
    /\ session_id = [r \in Requests |-> NoSession]
    /\ hist = [r \in Requests |-> NoObj]
    /\ chat_history = [r \in Requests |-> <<>>]
    /\ out = [r \in Requests |-> <<>>]
    /\ invoked = [r \in Requests |-> 0]
    /\ path = [r \in Requests |-> <<>>]
    /\ completed = <<>>
    /\ doneAtAsk = [r \in Requests |-> {}]

IdlePipe ==
    /\ variant = "history"
    /\ rag_chain = "unset"
    /\ db_dir = "unchecked"
    /\ store = [s \in Sessions |-> NoObj]
    /\ messages = [h \in Objects |-> <<>>]
    /\ nextObj = 1
    /\ pc = [r \in Requests |-> "NEW"]
    /\ session_id = [r \in Requests |-> NoSession]
    /\ hist = [r \in Requests |-> NoObj]
    /\ chat_history = [r \in Requests |-> <<>>]
    /\ out = [r \in Requests |-> <<>>]
    /\ invoked = [r \in Requests |-> 0]
    /\ path = [r \in Requests |-> <<>>]
    /\ completed = <<>>
    /\ doneAtAsk = [r \in Requests |-> {}]

(***************************************************************************)
(* The first stage of the chain: main.py composes the history-aware        *)
(* retriever (rewrite, then retrieve) in front of the QA prompt; ask.py    *)
(* composes the retriever directly.                                        *)
(***************************************************************************)
FirstStageNoRewrite(v) == "RETRIEVING"

FirstStage(v) == IF v = "history" THEN "REWRITING" ELSE "RETRIEVING"

\* Request r enters state st.
Goto(r, st) ==
    /\ pc' = [pc EXCEPT ![r] = st]
    /\ path' = [path EXCEPT ![r] = Append(@, st)]

\* Requests are numbered in the order they arrive.
NextToArrive(r) ==
    /\ pc[r] = "NEW"
    /\ \A q \in Requests : q < r => pc[q] # "NEW"

DoneNow == {q \in Requests : pc[q] = "DONE"}

(***************************************************************************)
(* startup_event: the chain is built when the database directory exists,   *)
(* and app_state["rag_chain"] is None otherwise.  ask.py builds its chain  *)
(* in main() (a database that fails to load ends the process).             *)
(***************************************************************************)
ChainAlwaysBuilt(db_exists) == "chain"

ChainAtStartup(db_exists) ==
    IF variant = "plain" \/ db_exists THEN "chain" ELSE "none"

Startup(db_exists) ==
    /\ rag_chain = "unset"
    /\ db_dir' = IF db_exists THEN "present" ELSE "absent"
    /\ rag_chain' = ChainAtStartup(db_exists)
    /\ UNCHANGED <<variant, store, messages, nextObj, pc, session_id, hist,
                   chat_history, out, invoked, path, completed, doneAtAsk>>
    /\ UNCHANGED <<ingestVars, retrVars>>

(***************************************************************************)
(* stream_answer with no chain: one fixed error fragment, then return.     *)
(***************************************************************************)
AskNoChain(r, s) ==
    /\ variant = "history"
    /\ rag_chain = "none"
    /\ NextToArrive(r)
    /\ session_id' = [session_id EXCEPT ![r] = s]
    /\ out' = [out EXCEPT ![r] = Append(@, ErrNoDatabase)]
    /\ Goto(r, "FAILED")
    /\ doneAtAsk' = [doneAtAsk EXCEPT ![r] = DoneNow]
    /\ UNCHANGED <<variant, rag_chain, db_dir, store, messages, nextObj, hist,
                   chat_history, invoked, completed>>
    /\ UNCHANGED <<ingestVars, retrVars>>

(***************************************************************************)
(* stream_answer calls rag_chain.astream: RunnableWithMessageHistory looks *)
(* the session up with get_session_history, loads its messages as          *)
(* chat_history and starts the chain, whose first stage is the rewrite.    *)
(***************************************************************************)
Ask(r, s) ==
    /\ variant = "history"
    /\ rag_chain = "chain"
    /\ NextToArrive(r)
    /\ LET st == StoreAfterGet(s)
           h == st[s]
       IN /\ store' = st
          /\ nextObj' = IF st # store THEN nextObj + 1 ELSE nextObj
          /\ hist' = [hist EXCEPT ![r] = h]
          /\ chat_history' = [chat_history EXCEPT ![r] = LoadHistory(h)]
          /\ messages' = MessagesAtStart(r, h)
    /\ session_id' = [session_id EXCEPT ![r] = s]
    /\ invoked' = [invoked EXCEPT ![r] = @ + 1]
    /\ Goto(r, FirstStage("history"))
    /\ doneAtAsk' = [doneAtAsk EXCEPT ![r] = DoneNow]
    /\ UNCHANGED <<variant, rag_chain, db_dir, out, completed>>
    /\ UNCHANGED <<ingestVars, retrVars>>

(***************************************************************************)
(* ask.py: one question per process, no session, no rewrite: the chain     *)
(* starts with the retriever.                                              *)
(***************************************************************************)
AskCli(r) ==
    /\ variant = "plain"
    /\ rag_chain = "chain"
    /\ r = 1
    /\ pc[r] = "NEW"
    /\ invoked' = [invoked EXCEPT ![r] = @ + 1]
    /\ Goto(r, FirstStage("plain"))
    /\ UNCHANGED <<variant, rag_chain, db_dir, store, messages, nextObj, session_id, hist,
                   chat_history, out, completed, doneAtAsk>>
    /\ UNCHANGED <<ingestVars, retrVars>>

(***************************************************************************)
(* history_aware_retriever: contextualize_q_prompt | llm | StrOutputParser *)
(* produced the standalone question; the retriever is next.                *)
(***************************************************************************)
Rewrite(r) ==
    /\ pc[r] = "REWRITING"
    /\ Goto(r, "RETRIEVING")
    /\ UNCHANGED <<variant, rag_chain, db_dir, store, messages, nextObj, session_id, hist,
                   chat_history, out, invoked, completed, doneAtAsk>>
    /\ UNCHANGED <<ingestVars, retrVars>>

(***************************************************************************)
(* The retriever returned its documents (possibly none); qa_prompt | llm   *)
(* is next.                                                                *)
(***************************************************************************)
Retrieve(r) ==
    /\ pc[r] = "RETRIEVING"
    /\ Goto(r, "GENERATING")
    /\ UNCHANGED <<variant, rag_chain, db_dir, store, messages, nextObj, session_id, hist,
                   chat_history, out, invoked, completed, doneAtAsk>>
    /\ UNCHANGED <<ingestVars, retrVars>>

(***************************************************************************)
(* One iteration of the streaming loop: the chain produced a chunk and     *)
(* stream_answer yields it (ask.py prints it).                             *)
(***************************************************************************)
Emit(r) ==
    /\ pc[r] = "GENERATING"
    /\ Len(out[r]) < MaxFragments
    /\ out' = [out EXCEPT ![r] = Append(@, Tok(Len(@) + 1))]
    /\ UNCHANGED <<variant, rag_chain, db_dir, store, messages, nextObj, pc, session_id, hist,
                   chat_history, invoked, path, completed, doneAtAsk>>
    /\ UNCHANGED <<ingestVars, retrVars>>

(***************************************************************************)
(* The chain's run ends: RunnableWithMessageHistory saves the input and    *)
(* the aggregated output to the session's history, the stream is exhausted *)
(* and the streaming loop ends.  ask.py has no history to save to.         *)
(***************************************************************************)
Finish(r) ==
    /\ pc[r] = "GENERATING"
    /\ messages' = IF variant = "history"
                      THEN AddMessages(hist[r], r, TurnOf(r, out[r]))
                      ELSE messages
    /\ completed' = Append(completed, r)
    /\ Goto(r, "DONE")
    /\ UNCHANGED <<variant, rag_chain, db_dir, store, nextObj, session_id, hist,
                   chat_history, out, invoked, doneAtAsk>>
    /\ UNCHANGED <<ingestVars, retrVars>>

(***************************************************************************)
(* An exception is raised by the chain while the request is rewriting,     *)
(* retrieving or generating: the except clause yields the error text.      *)
(***************************************************************************)
Fail(r) ==
    /\ pc[r] \in {"REWRITING", "RETRIEVING", "GENERATING"}
    /\ out' = [out EXCEPT ![r] = StreamAfterException(@)]
    /\ Goto(r, StateAfterException)
    /\ UNCHANGED <<variant, rag_chain, db_dir, store, messages, nextObj, session_id, hist,
                   chat_history, invoked, completed, doneAtAsk>>
    /\ UNCHANGED <<ingestVars, retrVars>>

IdleIngest ==
    /\ ipc = "start"
    /\ iscript = "batched"
    /\ total_files = 0
    /\ fi = 0
    /\ n_docs = 0
    /\ total_chunks = 0
    /\ cj = 0
    /\ file_batches = <<>>
    /\ attempts = <<>>
    /\ index = {}
    /\ reported = FALSE

IdleRetrieve ==
    /\ rpc = "ready"
    /\ search_type = "similarity"
    /\ docs = <<>>
    /\ query = 0
    /\ results = <<>>

Init == InitPipe /\ IdleIngest /\ IdleRetrieve

Next ==
    \/ \E b \in BOOLEAN : Startup(b)
    \/ \E r \in Requests, s \in Sessions : AskNoChain(r, s)
    \/ \E r \in Requests, s \in Sessions : Ask(r, s)
    \/ \E r \in Requests : AskCli(r)
    \/ \E r \in Requests : Rewrite(r)
    \/ \E r \in Requests : Retrieve(r)
    \/ \E r \in Requests : Emit(r)
    \/ \E r \in Requests : Finish(r)
    \/ \E r \in Requests : Fail(r)

Spec == Init /\ [][Next]_vars


(***************************************************************************)
(* Claims about the answer pipeline, checked under Spec.                   *)
(***************************************************************************)
Terminal == {"DONE", "FAILED"}

\* The requests of session s that completed, in completion order.
DoneInSession(s) == SelectSeq(completed, LAMBDA r : session_id[r] = s)

RECURSIVE TurnsOf(_)
TurnsOf(rs) ==
    IF rs = <<>> THEN <<>>
    ELSE TurnOf(Head(rs), out[Head(rs)]) \o TurnsOf(Tail(rs))

\* The history of session s (empty when the session was never referenced).
HistoryOf(s) == IF store[s] = NoObj THEN <<>> ELSE messages[store[s]]

Contains(seq, sub) ==
    \E k \in 0..(Len(seq) - Len(sub)) : SubSeq(seq, k + 1, k + Len(sub)) = sub

Concurrent(p, q) == p \notin doneAtAsk[q] /\ q \notin doneAtAsk[p]

FailedByException(r) == pc[r] = "FAILED" /\ invoked[r] = 1

C3_StreamShape ==
    \A r \in Requests :
        /\ pc[r] \in {"NEW", "REWRITING", "RETRIEVING", "GENERATING", "DONE", "FAILED"}
        /\ invoked[r] <= 1
        /\ FailedByException(r) =>
              /\ Len(out[r]) >= 1
              /\ Last(out[r]) = ErrException
              /\ \A k \in 1..(Len(out[r]) - 1) : out[r][k] = Tok(k)

C3_FailureStep ==
    \A r \in Requests :
        /\ (pc[r] \notin Terminal /\ pc'[r] = "FAILED" /\ invoked[r] = 1)
              => out'[r] = Append(out[r], ErrException)
        /\ pc[r] = "FAILED"
              => pc'[r] = "FAILED" /\ out'[r] = out[r] /\ invoked'[r] = invoked[r]

\* C3: an exception at any point of the streaming (before the first fragment or
\* after any number of them) leaves in the response the fragments already
\* emitted followed by exactly one error fragment, and the stream ends there;
\* the request is FAILED, the chain is not invoked again for it, and the
\* exception is handled, not propagated.
C3_ExceptionBecomesOneErrorFragment == [](C3_StreamShape) /\ [][C3_FailureStep]_vars

C3_Witness ==
    \E r \in Requests :
        /\ FailedByException(r)
        /\ out[r] = <<Tok(1), Tok(2), ErrException>>

\* The paths a request may take.
PipelinePaths(v) ==
    IF v = "history"
    THEN { <<"REWRITING", "RETRIEVING", "GENERATING", "DONE">>,
           <<"REWRITING", "RETRIEVING", "GENERATING", "FAILED">>,
           <<"REWRITING", "RETRIEVING", "FAILED">>,
           <<"REWRITING", "FAILED">>,
           <<"FAILED">> }
    ELSE { <<"RETRIEVING", "GENERATING", "DONE">>,
           <<"RETRIEVING", "GENERATING", "FAILED">>,
           <<"RETRIEVING", "FAILED">> }

FollowsStateOrder(r) ==
    /\ \E full \in PipelinePaths(variant) : IsPrefix(path[r], full)
    /\ IF path[r] = <<>> THEN pc[r] = "NEW" ELSE pc[r] = Last(path[r])
    /\ (<<"FAILED">> = path[r]) => rag_chain = "none"

TurnAppended(r) ==
    /\ session_id[r] # NoSession
    /\ Contains(HistoryOf(session_id[r]), TurnOf(r, out[r]))

C7_StoreStep ==
    /\ \A s \in Sessions : store[s] # NoObj => store'[s] = store[s]
    /\ \A h \in Objects : IsPrefix(messages[h], messages'[h])
    /\ \A r \in Requests :
          (pc[r] = "NEW" /\ invoked'[r] = 1 /\ variant = "history") =>
              LET s == session_id'[r] IN
              /\ hist'[r] = store'[s] /\ hist'[r] # NoObj
              /\ store[s] = NoObj =>
                    /\ messages'[hist'[r]] = <<>>
                    /\ \A t \in Sessions : store[t] # hist'[r]
              /\ store[s] # NoObj => hist'[r] = store[s]
              /\ \A t \in Sessions \ {s} : store'[t] = store[t]

\* C7: the session store only grows: a lookup of an unseen id creates an empty
\* history for it and returns it, a lookup of a known id returns the history
\* the store already holds, and no step removes a session id or removes or
\* reorders the messages a history already holds.
C7_StoreOnlyGrows == [][C7_StoreStep]_vars

C7_Witness ==
    \E p, q \in Requests :
        /\ p < q
        /\ session_id[p] = session_id[q]
        /\ hist[p] # NoObj /\ hist[q] = hist[p] /\ store[session_id[p]] = hist[p]
        /\ p \in doneAtAsk[q]
        /\ Len(messages[hist[p]]) = 4

C10_NoTurnOfFailed ==
    \A r \in Requests : pc[r] = "FAILED" =>
        \A h \in Objects : \A k \in 1..Len(messages[h]) : messages[h][k].req # r

C10_FailureStep ==
    \A r \in Requests :
        (pc[r] # "FAILED" /\ pc'[r] = "FAILED") =>
            /\ \A h \in Objects : messages'[h] = messages[h]
            /\ \A s \in Sessions : store[s] # NoObj => store'[s] = store[s]
            /\ \A s \in Sessions : HistoryOf(s)' = HistoryOf(s)

\* C10: a request that ends FAILED appends no turn to any history: no history
\* holds a message of a failed request, and the failing step leaves every
\* history as it was; the only trace such a request may leave is the empty
\* history its lookup created for an unseen session id.
C10_FailedRequestAppendsNothing == [](C10_NoTurnOfFailed) /\ [][C10_FailureStep]_vars

C10_Witness ==
    \E r, q \in Requests :
        /\ variant = "history"
        /\ FailedByException(r) /\ pc[q] = "DONE"
        /\ hist[r] = hist[q]
        /\ Len(messages[hist[r]]) = 2


\* The requests that have been received.
Received == {r \in Requests : pc[r] # "NEW"}

\* C11: when the vector database directory is absent at startup, rag_chain is
\* None from then on; every /ask request yields exactly one fixed error
\* fragment and ends, the chain (rewrite, retrieval, completion) is never
\* invoked for it, and no entry of store is created or modified.
C11_NoDatabaseNoChain ==
    (variant = "history" /\ db_dir = "absent") =>
        /\ rag_chain = "none"
        /\ \A r \in Received :
              /\ out[r] = <<ErrNoDatabase>>
              /\ pc[r] = "FAILED"
              /\ path[r] = <<"FAILED">>
              /\ invoked[r] = 0
              /\ hist[r] = NoObj /\ chat_history[r] = <<>>
        /\ \A s \in Sessions : store[s] = NoObj
        /\ \A h \in Objects : messages[h] = <<>>
        /\ nextObj = 1
        /\ completed = <<>>

C11_Witness ==
    /\ variant = "history" /\ db_dir = "absent"
    /\ Received = Requests
    /\ \E p, q \in Requests : p # q /\ session_id[p] = session_id[q]

(***************************************************************************)
(* Ingestion: ingest_local.py (file batches and chunk batches) and         *)
(* ingest.py (everything at once).  Files and chunks are identified by     *)
(* their position (1-based) in all_filepaths and in chunks, so a slice of  *)
(* consecutive elements is the pair <<first, last>> of its positions.      *)
(***************************************************************************)
FILE_BATCH_SIZE == 500
CHUNK_EMBED_BATCH_SIZE == 200

\* The numbers of files and of chunks tried: the multiples of the batch size
\* up to MaxFileBatches full file batches and MaxChunkBatches full chunk
\* batches, and one more than each.
MaxFileBatches == 1
MaxChunkBatches == 1

FileCounts ==
    {n \in 0..(MaxFileBatches * FILE_BATCH_SIZE + 1) : n % FILE_BATCH_SIZE \in {0, 1}}
ChunkCounts ==
    {n \in 0..(MaxChunkBatches * CHUNK_EMBED_BATCH_SIZE + 1) :
        n % CHUNK_EMBED_BATCH_SIZE \in {0, 1}}

Min(a, b) == IF a <= b THEN a ELSE b

\* seq[j : j + size] of a sequence of n elements, as <<first, last>> positions.
SliceShort(j, size, n) == <<j + 1, Min(j + size - 1, n)>>

Slice(j, size, n) == <<j + 1, Min(j + size, n)>>

\* The check after the directory walk (ingest_local.py) or the load (ingest.py).
AfterDiscoveryUnchecked(n, go) == go

AfterDiscovery(n, go) == IF n = 0 THEN "exit_no_docs" ELSE go

\* db.add_documents(chunk_batch) inside try/except: a batch that raises is
\* logged and leaves the index as it was.
IndexRollbackOnFailure(batch, ok) == IF ok THEN index \cup {batch} ELSE {}

IndexAfterAdd(batch, ok) == IF ok THEN index \cup {batch} ELSE index

InitIngest ==
    /\ ipc = "start"
    /\ iscript \in {"batched", "simple"}
    /\ total_files = 0
    /\ fi = 0
    /\ n_docs = 0
    /\ total_chunks = 0
    /\ cj = 0
    /\ file_batches = <<>>
    /\ attempts = <<>>
    /\ index = {}
    /\ reported = FALSE

(***************************************************************************)
(* ingest_local.py, step 2: walk the directory; no .txt file ends the run. *)
(***************************************************************************)
Walk(n) ==
    /\ ipc = "start" /\ iscript = "batched"
    /\ total_files' = n
    /\ ipc' = AfterDiscovery(n, "file_loop")
    /\ reported' = (ipc' = "exit_no_docs")
    /\ fi' = 0
    /\ UNCHANGED <<iscript, n_docs, total_chunks, cj, file_batches, attempts, index>>
    /\ UNCHANGED <<pipeVars, retrVars>>

(***************************************************************************)
(* ingest_local.py, step 3: one iteration of the file-batch loop up to the *)
(* chunk loop: take the slice, load its files (none, one or all of them    *)
(* load), split them into c chunks; a batch with no document or no chunk   *)
(* is skipped.                                                             *)
(***************************************************************************)
LoadFileBatch(loaded, c) ==
    /\ ipc = "file_loop" /\ fi < total_files
    /\ LET batch_filepaths == Slice(fi, FILE_BATCH_SIZE, total_files)
           size == batch_filepaths[2] - batch_filepaths[1] + 1
           d == CASE loaded = "none" -> 0
                  [] loaded = "one" -> 1
                  [] loaded = "all" -> size
           chunks == IF d = 0 THEN 0 ELSE c
       IN /\ n_docs' = d
          /\ total_chunks' = chunks
          /\ file_batches' = Append(file_batches,
                 [first |-> batch_filepaths[1], last |-> batch_filepaths[2],
                  offset |-> fi, chunks |-> chunks])
          /\ IF chunks = 0
                THEN /\ fi' = fi + FILE_BATCH_SIZE
                     /\ ipc' = "file_loop"
                ELSE /\ fi' = fi
                     /\ ipc' = "chunk_loop"
    /\ cj' = 0
    /\ UNCHANGED <<iscript, total_files, attempts, index, reported>>
    /\ UNCHANGED <<pipeVars, retrVars>>

(***************************************************************************)
(* ingest_local.py, step 4: one iteration of the chunk-batch loop; after   *)
(* the last one the file-batch loop moves on.                              *)
(***************************************************************************)
SubmitChunkBatch(ok) ==
    /\ ipc = "chunk_loop" /\ cj < total_chunks
    /\ LET chunk_batch == Slice(cj, CHUNK_EMBED_BATCH_SIZE, total_chunks)
           batch == [offset |-> fi, first |-> chunk_batch[1], last |-> chunk_batch[2]]
       IN /\ attempts' = Append(attempts, [batch |-> batch, ok |-> ok])
          /\ index' = IndexAfterAdd(batch, ok)
    /\ cj' = cj + CHUNK_EMBED_BATCH_SIZE
    /\ IF cj' < total_chunks
          THEN /\ fi' = fi
               /\ ipc' = "chunk_loop"
          ELSE /\ fi' = fi + FILE_BATCH_SIZE
               /\ ipc' = "file_loop"
    /\ UNCHANGED <<iscript, total_files, n_docs, total_chunks, file_batches, reported>>
    /\ UNCHANGED <<pipeVars, retrVars>>

(***************************************************************************)
(* ingest_local.py, step 5: the file-batch loop is exhausted.              *)
(***************************************************************************)
Finalize ==
    /\ ipc = "file_loop" /\ fi >= total_files
    /\ ipc' = "done"
    /\ UNCHANGED <<iscript, total_files, fi, n_docs, total_chunks, cj, file_batches,
                   attempts, index, reported>>
    /\ UNCHANGED <<pipeVars, retrVars>>

(***************************************************************************)
(* ingest.py, step 1: load every matching file; no document ends the run.  *)
(***************************************************************************)
LoadAll(n) ==
    /\ ipc = "start" /\ iscript = "simple"
    /\ total_files' = n
    /\ n_docs' = n
    /\ ipc' = AfterDiscovery(n, "build")
    /\ reported' = (ipc' = "exit_no_docs")
    /\ UNCHANGED <<iscript, fi, total_chunks, cj, file_batches, attempts, index>>
    /\ UNCHANGED <<pipeVars, retrVars>>

(***************************************************************************)
(* ingest.py, steps 2 to 4: split, then Chroma.from_documents on all the   *)
(* chunks at once; an exception there is not caught.                       *)
(***************************************************************************)
BuildAll(c, ok) ==
    /\ ipc = "build"
    /\ total_chunks' = c
    /\ LET batch == [offset |-> 0, first |-> 1, last |-> c]
       IN /\ attempts' = Append(attempts, [batch |-> batch, ok |-> ok])
          /\ index' = IF ok THEN index \cup {batch} ELSE index
    /\ ipc' = IF ok THEN "done" ELSE "crashed"
    /\ UNCHANGED <<iscript, total_files, fi, n_docs, cj, file_batches, reported>>
    /\ UNCHANGED <<pipeVars, retrVars>>

NextIngest ==
    \/ \E n \in FileCounts : Walk(n)
    \/ \E loaded \in {"none", "one", "all"}, c \in ChunkCounts : LoadFileBatch(loaded, c)
    \/ \E ok \in BOOLEAN : SubmitChunkBatch(ok)
    \/ Finalize
    \/ \E n \in FileCounts : LoadAll(n)
    \/ \E c \in ChunkCounts, ok \in BOOLEAN : BuildAll(c, ok)

InitIngestion == InitIngest /\ IdlePipe /\ IdleRetrieve

SpecIngest == InitIngestion /\ [][NextIngest]_vars

(***************************************************************************)
(* Claims about ingestion, checked under SpecIngest.                       *)
(***************************************************************************)
\* The chunk batches a file batch with c chunks is cut into.
ExpectedOffsets(c) == {j \in 0..(c - 1) : j % CHUNK_EMBED_BATCH_SIZE = 0}

AttemptsAt(offset, first) ==
    {k \in 1..Len(attempts) :
        attempts[k].batch.offset = offset /\ attempts[k].batch.first = first}

Succeeded == {attempts[k].batch : k \in {x \in 1..Len(attempts) : attempts[x].ok}}

\* C4: in batched ingestion, whatever chunk batches fail, every chunk batch of
\* every file batch is attempted exactly once, and the index holds exactly the
\* chunks of the batches whose submission succeeded.
C4_PartialFailure ==
    iscript = "batched" =>
        /\ index = Succeeded
        /\ \A k \in 1..Len(attempts) :
              Cardinality(AttemptsAt(attempts[k].batch.offset, attempts[k].batch.first)) = 1
        /\ ipc = "done" =>
              /\ \A k \in 1..Len(file_batches) :
                    \A j \in ExpectedOffsets(file_batches[k].chunks) :
                        Cardinality(AttemptsAt(file_batches[k].offset, j + 1)) = 1
              /\ Len(file_batches) = (total_files + FILE_BATCH_SIZE - 1) \div FILE_BATCH_SIZE

C4_Witness ==
    /\ iscript = "batched" /\ ipc = "done"
    /\ Len(attempts) >= 3
    /\ ~attempts[1].ok /\ attempts[2].ok /\ ~attempts[3].ok
    /\ attempts[1].batch.offset = attempts[2].batch.offset
    /\ attempts[3].batch.offset # attempts[1].batch.offset
    /\ index # {}

C5_NoDocuments ==
    (ipc # "start" /\ total_files = 0) =>
        /\ ipc = "exit_no_docs"
        /\ reported
        /\ attempts = <<>> /\ index = {} /\ file_batches = <<>>

C5_Terminal ==
    ipc = "exit_no_docs" =>
        /\ ipc' = "exit_no_docs"
        /\ attempts' = attempts /\ index' = index /\ file_batches' = file_batches

\* C5: with no matching file, ingestion reports the no-documents condition and
\* ends the run; no chunk batch is ever submitted, nothing is written to the
\* index, and the run does not start over.
C5_NoDocumentsNoWrite == [](C5_NoDocuments) /\ [][C5_Terminal]_vars

C5_Witness ==
    ipc = "exit_no_docs" /\ reported /\ total_files = 0 /\ iscript = "batched"

\* Attempts of the file batch at `offset`, in submission order.
AttemptsOf(offset) == SelectSeq(attempts, LAMBDA a : a.batch.offset = offset)

\* A sequence of slices <<first, last>> cuts 1..n into consecutive runs of at
\* most `size` elements, only the last of which may be shorter: the first
\* slice starts at 1, each slice starts right after the one before it, the
\* last slice ends at n, and no slice is empty; so every element of 1..n is
\* in exactly one slice and the order is kept.
Partitions(slices, n, size) ==
    /\ n = 0 => slices = <<>>
    /\ n > 0 => /\ Len(slices) >= 1
                /\ slices[1][1] = 1
                /\ slices[Len(slices)][2] = n
    /\ \A k \in 1..Len(slices) :
          /\ slices[k][1] <= slices[k][2]
          /\ slices[k][2] - slices[k][1] + 1 <= size
          /\ k < Len(slices) => /\ slices[k][2] - slices[k][1] + 1 = size
                                /\ slices[k + 1][1] = slices[k][2] + 1

FileSlices == [k \in 1..Len(file_batches) |-> <<file_batches[k].first, file_batches[k].last>>]

ChunkSlices(offset) ==
    LET as == AttemptsOf(offset)
    IN [k \in 1..Len(as) |-> <<as[k].batch.first, as[k].batch.last>>]

\* C9: the batching loops partition their input: every file path is in exactly
\* one file batch of at most FILE_BATCH_SIZE consecutive paths, every chunk of a
\* file batch is submitted in exactly one chunk batch of at most
\* CHUNK_EMBED_BATCH_SIZE consecutive chunks, in the original order, and only
\* the last batch of a loop may be smaller than the batch size.
C9_BatchesPartitionInput ==
    (iscript = "batched" /\ ipc = "done") =>
        /\ Partitions(FileSlices, total_files, FILE_BATCH_SIZE)
        /\ \A k \in 1..Len(file_batches) :
              Partitions(ChunkSlices(file_batches[k].offset), file_batches[k].chunks,
                         CHUNK_EMBED_BATCH_SIZE)

C9_Witness ==
    /\ iscript = "batched" /\ ipc = "done"
    /\ total_files = FILE_BATCH_SIZE + 1
    /\ Len(file_batches) = 2
    /\ file_batches[1].chunks = CHUNK_EMBED_BATCH_SIZE + 1
    /\ file_batches[2].chunks = CHUNK_EMBED_BATCH_SIZE
    /\ Len(attempts) = 3


(***************************************************************************)
(* Retrieval: db.as_retriever as the programs configure it.  ask.py asks   *)
(* for the k most similar chunks; main.py and main_local.py ask for        *)
(* maximal marginal relevance over the fetch_k most similar chunks.        *)
(* An embedding is a unit vector at a multiple of 60 degrees, so that      *)
(* twice the cosine similarity of two embeddings is an integer.            *)
(***************************************************************************)
K == 5
FETCH_K == 20
LAMBDA_MULT_NUM == 1
LAMBDA_MULT_DEN == 2

MaxDocs == 6

Angles == 0..5

\* Twice the cosine of d * 60 degrees.
Cos2(d) ==
    CASE d = 0 -> 2
      [] d \in {1, 5} -> 1
      [] d \in {2, 4} -> -1
      [] d = 3 -> -2

Similarity(a, b) == Cos2((a - b + 6) % 6)

\* The relevance score of the chunk at position p for the query.
Relevance(p) == Similarity(query, docs[p])

\* search_kwargs k / fetch_k: at most n of the ranked chunks are returned.
Take(seq, n) == SubSeq(seq, 1, Min(n, Len(seq)))

\* The positions in `left` by decreasing relevance, earlier position first
\* among equals.
RECURSIVE Ranked(_)
Ranked(left) ==
    IF left = {} THEN <<>>
    ELSE LET best == CHOOSE p \in left :
                        \A o \in left :
                            \/ Relevance(p) > Relevance(o)
                            \/ Relevance(p) = Relevance(o) /\ p <= o
         IN <<best>> \o Ranked(left \ {best})

\* similarity_search: the n most similar chunks, most similar first.
SimilaritySearch(n) == Take(Ranked(DOMAIN docs), n)

SeqMax(S) == CHOOSE x \in S : \A y \in S : y <= x

Range(seq) == {seq[x] : x \in DOMAIN seq}

\* The MMR score of candidate p against the chunks already selected, scaled
\* by the denominator of lambda_mult.
MmrScore(p, selected) ==
    LAMBDA_MULT_NUM * Relevance(p)
    - (LAMBDA_MULT_DEN - LAMBDA_MULT_NUM)
        * SeqMax({Similarity(docs[p], docs[s]) : s \in Range(selected)})

\* maximal_marginal_relevance: starting from the most similar candidate, add
\* the candidate of best MMR score (the first such candidate among equals)
\* until n are selected or the candidates run out.
RECURSIVE MmrSelect(_, _, _)
MmrSelect(cands, selected, n) ==
    IF Len(selected) >= Min(n, Len(cands)) THEN selected
    ELSE LET open == {x \in DOMAIN cands : cands[x] \notin Range(selected)}
             pick == CHOOSE x \in open :
                        \A y \in open :
                            \/ MmrScore(cands[x], selected) > MmrScore(cands[y], selected)
                            \/ /\ MmrScore(cands[x], selected) = MmrScore(cands[y], selected)
                               /\ x <= y
         IN MmrSelect(cands, Append(selected, cands[pick]), n)

\* The documents returned for a selection: the candidates that were selected,
\* in the order the store ranked the candidates.
InSelectionOrder(cands, selected) == selected

InCandidateOrder(cands, selected) ==
    SelectSeq(cands, LAMBDA p : p \in Range(selected))

\* max_marginal_relevance_search: fetch candidates, select n of them by MMR.
MaxMarginalRelevanceSearch(n, fetch) ==
    LET cands == SimilaritySearch(fetch)
        selected == IF Min(n, Len(cands)) <= 0 THEN <<>>
                    ELSE MmrSelect(cands, <<cands[1]>>, n)
    IN InCandidateOrder(cands, selected)

Retriever(type) ==
    IF type = "mmr" THEN MaxMarginalRelevanceSearch(K, FETCH_K)
    ELSE SimilaritySearch(K)

\* The index holds up to MaxDocs chunks; chunks of equal embedding are
\* interchangeable, so the contents are listed by increasing angle.
IndexContents ==
    {s \in UNION {[1..n -> Angles] : n \in 0..MaxDocs} :
        \A x, y \in DOMAIN s : x < y => s[x] <= s[y]}

InitRetrieve ==
    /\ rpc = "ready"
    /\ search_type \in {"similarity", "mmr"}
    /\ docs \in IndexContents
    /\ query \in Angles
    /\ results = <<>>

\* retriever.invoke(question)
Invoke ==
    /\ rpc = "ready"
    /\ results' = Retriever(search_type)
    /\ rpc' = "done"
    /\ UNCHANGED <<search_type, docs, query>>
    /\ UNCHANGED <<pipeVars, ingestVars>>

InitRetrieval == InitRetrieve /\ IdlePipe /\ IdleIngest

NextRetrieve == Invoke

SpecRetrieve == InitRetrieval /\ [][NextRetrieve]_vars

(***************************************************************************)
(* Claims about retrieval, checked under SpecRetrieve.                     *)
(***************************************************************************)
NonIncreasingRelevance(seq) ==
    \A x, y \in DOMAIN seq : x < y => Relevance(seq[x]) >= Relevance(seq[y])

\* C8: for every query and every index content, the retriever the program
\* configures (k = 5) returns at most 5 results, ordered by non-increasing
\* relevance score to the query.
C8_AtMostKByRelevance ==
    rpc = "done" =>
        /\ Len(results) <= K
        /\ NonIncreasingRelevance(results)

\* MMR chose a set of chunks that is not the top k, from an index of more
\* than k chunks.
C8_Witness ==
    /\ rpc = "done"
    /\ search_type = "mmr"
    /\ Len(docs) > K
    /\ Len(results) = K
    /\ Range(results) # Range(SimilaritySearch(K))
    /\ \E x, y \in DOMAIN results : Relevance(results[x]) > Relevance(results[y])

=============================================================================
